---- MODULE Spec2Model ----
(***************************************************************************)
(* A model of scripts/bootstrap.py, the bootstrap tool of the MCPStack     *)
(* tool template: name derivation and validation, the persisted config,   *)
(* the placeholder rewriter, and the commands init / preview / apply /     *)
(* validate / reset / doctor acting on the repository tree.                *)
(*                                                                         *)
(* A Python str is a sequence of one-character strings; None and a JSON    *)
(* value that is no string are the two markers None and NotStr.            *)
(***************************************************************************)
EXTENDS Integers, Sequences, FiniteSets, TLC

VARIABLES
    fs,     \* the repository tree: files with their text, and directories
    cfg,    \* what .mcpstack-tool.json holds
    last,   \* the last command run: its arguments, exit status and output
    nm,     \* the name functions' call record (derive_names, is_valid_names, ...)
    rw,     \* the rewriter's call record (replace_in_text)
    runs    \* how many times the program has been run

vars == <<fs, cfg, last, nm, rw, runs>>

----------------------------------------------------------------------------
(* Characters and the str methods the program uses *)

LowerSeq == <<"a","b","c","d","e","f","g","h","i","j","k","l","m",
              "n","o","p","q","r","s","t","u","v","w","x","y","z">>

UpperSeq == <<"A","B","C","D","E","F","G","H","I","J","K","L","M",
              "N","O","P","Q","R","S","T","U","V","W","X","Y","Z">>

DigitSeq == <<"0","1","2","3","4","5","6","7","8","9">>

Range(s) == {s[i] : i \in DOMAIN s}

Lower == Range(LowerSeq)

Upper == Range(UpperSeq)

Digits == Range(DigitSeq)

\* \w of the re module, on the characters of the model
WordChars == Lower \cup Upper \cup Digits \cup {"_"}

None == <<"<None>">>

NotStr == <<"<not-a-str>">>

IsStr(v) == v # None /\ v # NotStr

\* Python truthiness of an Optional[str] (or of a JSON scalar)
Truthy(v) == v # None /\ v # <<>>

\* a or b
Or(a, b) == IF Truthy(a) THEN a ELSE b

IndexOf(seq, c) == CHOOSE i \in DOMAIN seq : seq[i] = c

LowerChar(c) == IF c \in Upper THEN LowerSeq[IndexOf(UpperSeq, c)] ELSE c

UpperChar(c) == IF c \in Lower THEN UpperSeq[IndexOf(LowerSeq, c)] ELSE c

\* str.lower()
StrLower(s) == [i \in 1..Len(s) |-> LowerChar(s[i])]

\* str.upper()
StrUpper(s) == [i \in 1..Len(s) |-> UpperChar(s[i])]

\* str.replace(a, b) for one-character a and b
StrReplace(s, a, b) == [i \in 1..Len(s) |-> IF s[i] = a THEN b ELSE s[i]]

----------------------------------------------------------------------------
(* PLACEHOLDERS and the literal prefixes of derive_names *)

Fields == <<"tool_slug", "class_name", "package_name", "dist_name", "env_prefix">>

FieldSet == Range(Fields)

PLACEHOLDERS ==
    [tool_slug    |-> <<"m","i","m","i","c">>,
     class_name   |-> <<"M","i","m","i","c">>,
     package_name |-> <<"m","c","p","s","t","a","c","k","_","m","i","m","i","c">>,
     dist_name    |-> <<"m","c","p","s","t","a","c","k","-","m","i","m","i","c">>,
     env_prefix   |-> <<"M","C","P","_","M","I","M","I","C">>]

PkgPrefix == <<"m","c","p","s","t","a","c","k","_">>

DistPrefix == <<"m","c","p","s","t","a","c","k","-">>

EnvPrefix == <<"M","C","P","_">>

----------------------------------------------------------------------------
(* derive_names *)

DeriveDistFromRawSlug(tool_slug, class_name, package_name, dist_name, env_prefix) ==
    LET slug_snake == StrReplace(StrLower(tool_slug), "-", "_")
    IN  [tool_slug    |-> slug_snake,
         class_name   |-> class_name,
         package_name |-> Or(package_name, PkgPrefix \o slug_snake),
         dist_name    |-> Or(dist_name, DistPrefix \o StrReplace(tool_slug, "_", "-")),
         env_prefix   |-> Or(env_prefix, EnvPrefix \o StrUpper(slug_snake))]

derive_names(tool_slug, class_name, package_name, dist_name, env_prefix) ==
    LET slug_snake == StrReplace(StrLower(tool_slug), "-", "_")
        pkg  == Or(package_name, PkgPrefix \o slug_snake)
        dist == Or(dist_name, DistPrefix \o StrReplace(StrLower(tool_slug), "_", "-"))
        env  == Or(env_prefix, EnvPrefix \o StrUpper(slug_snake))
    IN  [tool_slug    |-> slug_snake,
         class_name   |-> class_name,
         package_name |-> pkg,
         dist_name    |-> dist,
         env_prefix   |-> env]

----------------------------------------------------------------------------
(* is_valid_names: the five grammars, matched with re.fullmatch *)

\* [a-z][a-z0-9_]*
MatchSnake(s) ==
    /\ Len(s) >= 1
    /\ s[1] \in Lower
    /\ \A i \in 2..Len(s) : s[i] \in Lower \cup Digits \cup {"_"}

\* [A-Z][A-Za-z0-9_]*
MatchPascal(s) ==
    /\ Len(s) >= 1
    /\ s[1] \in Upper
    /\ \A i \in 2..Len(s) : s[i] \in WordChars

\* [a-z0-9][a-z0-9\-]*
MatchKebab(s) ==
    /\ Len(s) >= 1
    /\ s[1] \in Lower \cup Digits
    /\ \A i \in 2..Len(s) : s[i] \in Lower \cup Digits \cup {"-"}

\* [A-Z0-9_]+
MatchUpperSnake(s) ==
    /\ Len(s) >= 1
    /\ \A i \in 1..Len(s) : s[i] \in Upper \cup Digits \cup {"_"}

\* the grammar is_valid_names holds the field f to
FieldMatches(f, s) ==
    CASE f = "tool_slug"    -> MatchSnake(s)
      [] f = "class_name"   -> MatchPascal(s)
      [] f = "package_name" -> MatchSnake(s)
      [] f = "dist_name"    -> MatchKebab(s)
      [] f = "env_prefix"   -> MatchUpperSnake(s)

\* one "if not fullmatch: errs.append(...)" statement; a message is named by its field
CheckField(errs, names, f) ==
    IF ~FieldMatches(f, names[f]) THEN Append(errs, f) ELSE errs

ShortCircuitErrors(names) ==
    LET bad == {i \in 1..Len(Fields) : ~FieldMatches(Fields[i], names[Fields[i]])}
    IN  IF bad = {} THEN <<>>
        ELSE <<Fields[CHOOSE i \in bad : \A j \in bad : i <= j]>>

\* the list errs when line 191 is reached
ValidationErrors(names) ==
    LET e1 == CheckField(<<>>, names, "tool_slug")
        e2 == CheckField(e1, names, "class_name")
        e3 == CheckField(e2, names, "package_name")
        e4 == CheckField(e3, names, "dist_name")
    IN  CheckField(e4, names, "env_prefix")

\* re.fullmatch raises TypeError on a value that is no str
ValidationRaises(names) == \E f \in FieldSet : ~IsStr(names[f])

is_valid_names(names) ==
    IF ValidationRaises(names)
    THEN [raised |-> TRUE, ok |-> FALSE, errs |-> <<>>]
    ELSE LET errs == ValidationErrors(names)
         IN  [raised |-> FALSE, ok |-> (Len(errs) = 0), errs |-> errs]

----------------------------------------------------------------------------
(* replace_in_text: seven re.sub passes, one after the other *)

PackageToken == <<"m","c","p","s","t","a","c","k","_",
                  "y","o","u","r","_","t","o","o","l","_","n","a","m","e">>

DistToken == <<"m","c","p","s","t","a","c","k","-",
               "y","o","u","r","-","t","o","o","l","-","n","a","m","e">>

ClassToken == <<"Y","o","u","r","T","o","o","l">>

SlugToken == <<"y","o","u","r","_","t","o","o","l","_","n","a","m","e">>

EnvToken == <<"M","C","P","_","Y","O","U","R","_","T","O","O","L","_","N","A","M","E">>

\* What follows the literal in a pattern: "b" is \b, "AZ_" is (?=[A-Z_]),
\* "AZ09_" is (?=[A-Z0-9_]). Every pattern starts with \b.
patterns ==
    <<[token |-> PackageToken, after |-> "b",     field |-> "package_name"],
      [token |-> DistToken,    after |-> "b",     field |-> "dist_name"],
      [token |-> ClassToken,   after |-> "AZ_",   field |-> "class_name"],
      [token |-> ClassToken,   after |-> "b",     field |-> "class_name"],
      [token |-> SlugToken,    after |-> "b",     field |-> "tool_slug"],
      [token |-> EnvToken,     after |-> "AZ09_", field |-> "env_prefix"],
      [token |-> EnvToken,     after |-> "b",     field |-> "env_prefix"]>>

IsWordAt(t, i) == i >= 1 /\ i <= Len(t) /\ t[i] \in WordChars

\* \b between t[i-1] and t[i]
Boundary(t, i) == IsWordAt(t, i - 1) # IsWordAt(t, i)

LiteralAt(t, i, tok) ==
    /\ i + Len(tok) - 1 <= Len(t)
    /\ \A k \in 1..Len(tok) : t[i + k - 1] = tok[k]

AfterHolds(t, j, after) ==
    CASE after = "b"     -> Boundary(t, j)
      [] after = "AZ_"   -> j <= Len(t) /\ t[j] \in Upper \cup {"_"}
      [] after = "AZ09_" -> j <= Len(t) /\ t[j] \in Upper \cup Digits \cup {"_"}

MatchAtNoLeftBoundary(t, i, pat) ==
    /\ LiteralAt(t, i, pat.token)
    /\ AfterHolds(t, i + Len(pat.token), pat.after)

\* the pattern matches t at position i
MatchAt(t, i, pat) ==
    /\ Boundary(t, i)
    /\ LiteralAt(t, i, pat.token)
    /\ AfterHolds(t, i + Len(pat.token), pat.after)

\* where the scan, standing at position i, finds its next match; 0 when it finds none
NextMatch(pat, t, i) ==
    LET found == {j \in i..Len(t) : MatchAt(t, j, pat)}
    IN  IF found = {} THEN 0 ELSE CHOOSE j \in found : \A k \in found : j <= k

RECURSIVE SubFrom(_, _, _, _)
\* re.sub from position i on: the leftmost match is replaced and the scan goes on
\* behind it; the context of a match is always the text the pass started with
SubFrom(pat, repl, t, i) ==
    LET j == NextMatch(pat, t, i)
    IN  IF j = 0
        THEN SubSeq(t, i, Len(t))
        ELSE SubSeq(t, i, j - 1) \o repl \o SubFrom(pat, repl, t, j + Len(pat.token))

\* re.sub(pat, repl, text)
ReSub(pat, repl, t) == SubFrom(pat, repl, t, 1)

RECURSIVE ApplyPatterns(_, _, _)
\* the loop of lines 214-215 from pattern k on
ApplyPatterns(t, mapping, k) ==
    IF k > Len(patterns) THEN t
    ELSE ApplyPatterns(ReSub(patterns[k], mapping[patterns[k].field], t), mapping, k + 1)

replace_in_text(text, mapping) == ApplyPatterns(text, mapping, 1)

----------------------------------------------------------------------------
(* .mcpstack-tool.json, _load_config and _ensure_names_from_sources *)

\* dict.get finds no such key
Absent == <<"<absent>">>

NoFields == [f \in FieldSet |-> Absent]

\* The config file: kind says what the file is --
\*   "missing"    there is no file
\*   "garbage"    a file json.loads rejects
\*   "falsy"      JSON that parses to a falsy value ({}, [], 0, "", null)
\*   "nonobject"  JSON that parses to a truthy value that is no object ([1], "x", 5)
\*   "object"     a JSON object, not empty
\* namesKind is what an object holds under "names" ("absent": no such key, "nondict":
\* null, a string, a list; "dict": an object) and names are that object's members.
MissingCfg == [kind |-> "missing", namesKind |-> "absent", names |-> NoFields]

\* what json.dumps({"names": names}) leaves in the file
SavedCfg(names) == [kind |-> "object", namesKind |-> "dict", names |-> names]

\* _load_config: None (here MissingCfg) when the file is missing or does not parse
LoadConfig(c) == IF c.kind \in {"missing", "garbage"} THEN MissingCfg ELSE c

\* Python truthiness of what _load_config returned
CfgTruthy(c) == c.kind \in {"nonobject", "object"}

\* cfg.get("names", {}) raises AttributeError on a value that is no dict
CfgGetRaises(c) == CfgTruthy(c) /\ c.kind = "nonobject"

\* source.get(...) raises AttributeError when source is no dict
SourceIsDict(c) == ~(CfgTruthy(c) /\ c.namesKind = "nondict")

\* source.get(key, default) on the dict that line 317 (or 354) found
SourceGet(c, f, default) ==
    IF CfgTruthy(c) /\ c.namesKind = "dict" /\ c.names[f] # Absent
    THEN c.names[f]
    ELSE default

\* the third argument tier of lines 319-323: PLACEHOLDERS for slug and class, None else
TierDefault(f) ==
    IF f \in {"tool_slug", "class_name"} THEN PLACEHOLDERS[f] ELSE None

ResolveArgStoredFirst(over, c, f) ==
    LET stored == SourceGet(c, f, None)
    IN  IF Truthy(stored) THEN stored
        ELSE IF Truthy(over[f]) THEN over[f] ELSE TierDefault(f)

\* one argument of the derive_names call: override or source.get(...)
ResolveArg(over, c, f) ==
    IF Truthy(over[f]) THEN over[f] ELSE SourceGet(c, f, TierDefault(f))

\* the derive_names call of lines 318-324 and 377-383 raises: a source.get on a
\* non-dict, or str methods called on a slug that is no str
ResolveRaises(over, c) ==
    \/ CfgGetRaises(c)
    \/ (~SourceIsDict(c) /\ \E f \in FieldSet : ~Truthy(over[f]))
    \/ ~IsStr(ResolveArg(over, c, "tool_slug"))

\* the names derive_names returns there
Resolve(over, c) ==
    derive_names(ResolveArg(over, c, "tool_slug"),
                 ResolveArg(over, c, "class_name"),
                 ResolveArg(over, c, "package_name"),
                 ResolveArg(over, c, "dist_name"),
                 ResolveArg(over, c, "env_prefix"))

NoNames == [f \in FieldSet |-> None]

\* a validation whose verdict is ignored
RejectsNever(v) == FALSE

\* "if not ok:" of lines 326 and 386
Rejects(v) == ~v.ok

\* _ensure_names_from_sources: "ok" with the names, "BadParameter" with the messages,
\* or "exception" when something other than typer.BadParameter is raised
EnsureNames(over, file, prefer_config) ==
    LET c == IF prefer_config THEN LoadConfig(file) ELSE MissingCfg
    IN  IF ResolveRaises(over, c)
        THEN [outcome |-> "exception", names |-> NoNames, errs |-> <<>>]
        ELSE LET names == Resolve(over, c)
                 v == is_valid_names(names)
             IN  IF v.raised
                 THEN [outcome |-> "exception", names |-> NoNames, errs |-> <<>>]
                 ELSE IF Rejects(v)
                 THEN [outcome |-> "BadParameter", names |-> names, errs |-> v.errs]
                 ELSE [outcome |-> "ok", names |-> names, errs |-> <<>>]

----------------------------------------------------------------------------
(* The values the name functions are called with *)

SlugInputs == {<<"a","b">>, <<"A","-","b">>, <<"9">>}

ClassInputs == {<<"A","b">>, <<"a","b">>}

PackageInputs == {<<"p","k">>, <<"P">>}

DistInputs == {<<"d","-","k">>, <<"d","_","k">>}

EnvInputs == {<<"E","V">>, <<"e","v">>}

\* a flag that is not given is None; an empty flag value is the empty str
Overrides ==
    [tool_slug    : SlugInputs \cup {None, <<>>},
     class_name   : ClassInputs \cup {None},
     package_name : PackageInputs \cup {None},
     dist_name    : DistInputs \cup {None},
     env_prefix   : EnvInputs \cup {None}]

NoOverrides == [f \in FieldSet |-> None]

\* the "names" objects a config file may hold: one that init saved, ones that were
\* edited by hand (members missing, empty, null, or no strings)
StoredNames ==
    {derive_names(<<"s","t">>, <<"S","t">>, None, None, None),
     [NoFields EXCEPT !.tool_slug = <<"s","t">>, !.package_name = <<"s","p">>],
     [NoFields EXCEPT !.class_name = <<"S","t">>, !.dist_name = <<>>,
                      !.env_prefix = <<"S","E">>],
     [NoFields EXCEPT !.tool_slug = <<>>],
     [NoFields EXCEPT !.tool_slug = None],
     [NoFields EXCEPT !.package_name = NotStr],
     NoFields}

ConfigFiles ==
    {MissingCfg,
     [kind |-> "garbage",   namesKind |-> "absent",  names |-> NoFields],
     [kind |-> "falsy",     namesKind |-> "absent",  names |-> NoFields],
     [kind |-> "nonobject", namesKind |-> "absent",  names |-> NoFields],
     [kind |-> "object",    namesKind |-> "absent",  names |-> NoFields],
     [kind |-> "object",    namesKind |-> "nondict", names |-> NoFields]}
    \cup {SavedCfg(n) : n \in StoredNames}

----------------------------------------------------------------------------
(* The repository tree.  A path is a sequence of names below the repository   *)
(* root, a name a str; tree.files maps the regular files to their text, tree.dirs *)
(* are the directories.                                                        *)

SrcName == <<"s","r","c">>

TestsName == <<"t","e","s","t","s">>

PyprojectName == <<"p","y","p","r","o","j","e","c","t",".","t","o","m","l">>

ReadmeMdName == <<"R","E","A","D","M","E",".","m","d">>

ReadmeRstName == <<"R","E","A","D","M","E",".","r","s","t">>

ScriptsName == <<"s","c","r","i","p","t","s">>

ScaffoldName == <<"s","c","a","f","f","o","l","d">>

ToolPyName == <<"t","o","o","l",".","p","y">>

ToolPycName == <<"t","o","o","l",".","p","y","c">>

TestToolPyName == <<"t","e","s","t","_","t","o","o","l",".","p","y">>

PycacheName == <<"_","_","p","y","c","a","c","h","e","_","_">>

\* the roots as line 225-227 fix them: the directory above scripts/
SRC == <<SrcName>>

TESTS == <<TestsName>>

PYPROJECT == <<PyprojectName>>

SCAFFOLD_DIR == <<ScriptsName, ScaffoldName>>

IGNORED_PARTS ==
    {<<".","v","e","n","v">>,
     <<".","g","i","t">>,
     PycacheName,
     <<".","m","y","p","y","_","c","a","c","h","e">>,
     <<".","p","y","t","e","s","t","_","c","a","c","h","e">>,
     <<".","r","u","f","f","_","c","a","c","h","e">>,
     <<"n","o","d","e","_","m","o","d","u","l","e","s">>}

IGNORED_SUFFIXES ==
    {<<".","p","y","c">>,
     <<".","p","y","o">>,
     <<".","D","S","_","S","t","o","r","e">>}

Exists(tree, p) == p \in tree.dirs \/ p \in DOMAIN tree.files

IsFile(tree, p) == p \in DOMAIN tree.files

IsUnder(d, p) == Len(d) <= Len(p) /\ SubSeq(p, 1, Len(d)) = d

\* _find_repo_root sees a pyproject.toml in the directory above scripts/.  Without
\* one (and with none further up) the first TEMPLATE_ROOT is the script's own path:
\* SCAFFOLD_DIR and CONFIG_PATH then lie below a regular file and do not exist.
RootFound(tree) == Exists(tree, PYPROJECT)

\* PurePath.suffix: from the last dot on, unless that dot starts or ends the name
Suffix(name) ==
    LET dots == {i \in 1..Len(name) : name[i] = "."}
    IN  IF dots = {} THEN <<>>
        ELSE LET i == CHOOSE d \in dots : \A e \in dots : e <= d
             IN  IF i > 1 /\ i < Len(name) THEN SubSeq(name, i, Len(name)) ELSE <<>>

_skip_path(p) ==
    \/ \E k \in 1..Len(p) : p[k] \in IGNORED_PARTS
    \/ Suffix(p[Len(p)]) \in IGNORED_SUFFIXES

\* what list(SRC.rglob("*")) + list(TESTS.rglob("*")) holds after the two filters
TreeFiles(tree) ==
    {p \in DOMAIN tree.files : (IsUnder(SRC, p) \/ IsUnder(TESTS, p)) /\ ~_skip_path(p)}

\* iter_files: the files of both roots when both exist, then pyproject.toml
iter_files(tree) ==
    (IF Exists(tree, SRC) /\ Exists(tree, TESTS) THEN TreeFiles(tree) ELSE {})
    \cup (IF IsFile(tree, PYPROJECT) THEN {PYPROJECT} ELSE {})

\* shutil.rmtree(d)
RmTree(tree, d) ==
    [files |-> [p \in {q \in DOMAIN tree.files : ~IsUnder(d, q)} |-> tree.files[p]],
     dirs  |-> {q \in tree.dirs : ~IsUnder(d, q)}]

Rebase(p, from, to) == to \o SubSeq(p, Len(from) + 1, Len(p))

\* shutil.copytree(from, to), to not existing
CopyTree(tree, from, to) ==
    LET moved == {p \in DOMAIN tree.files : IsUnder(from, p)}
        new   == {Rebase(p, from, to) : p \in moved}
    IN  [files |-> [q \in DOMAIN tree.files \cup new |->
                       IF q \in new
                       THEN tree.files[CHOOSE p \in moved : Rebase(p, from, to) = q]
                       ELSE tree.files[q]],
         dirs  |-> tree.dirs \cup {Rebase(d, from, to) : d \in {e \in tree.dirs : IsUnder(from, e)}}]

\* shutil.copy2(from, to)
CopyFile(tree, from, to) ==
    [files |-> [q \in DOMAIN tree.files \cup {to} |->
                   IF q = to THEN tree.files[from] ELSE tree.files[q]],
     dirs  |-> tree.dirs]

\* shutil.move(old, new) of a directory: into new when new is a directory already,
\* else renamed to new
MoveDir(tree, old, new) ==
    LET target == IF new \in tree.dirs THEN new \o <<old[Len(old)]>> ELSE new
    IN  RmTree(CopyTree(tree, old, target), old)

----------------------------------------------------------------------------
(* _do_preview, _do_apply and reset on a tree *)

OldPackageDir == SRC \o <<PackageToken>>

SamplePath == OldPackageDir \o <<ToolPyName>>

\* _do_preview reads the sample file when there is one; nothing is written
PreviewShown(tree, names) ==
    IF Exists(tree, SamplePath)
    THEN replace_in_text(tree.files[SamplePath], names)
    ELSE None

\* every file read is written back
WritesAlways(txt, new_txt) == TRUE

\* line 488: the file is written when the rewritten text differs
Writes(txt, new_txt) == new_txt # txt

\* a gate that lets every run through
ConfirmedAlways(yes, answer) == TRUE

\* line 481: --yes, or the answer to "This will modify files. Continue?"
Confirmed(yes, answer) == yes \/ answer

\* the text pass of lines 484-490: every enumerated file is read and rewritten,
\* and written back when Writes says so
TextPass(tree, names) ==
    LET read    == {<<p, replace_in_text(tree.files[p], names)>> : p \in iter_files(tree)}
        changed == {x \in read : Writes(tree.files[x[1]], x[2])}
        written == {x[1] : x \in changed}
    IN  [tree |-> [files |-> [p \in DOMAIN tree.files |->
                               IF p \in written
                               THEN (CHOOSE x \in changed : x[1] = p)[2]
                               ELSE tree.files[p]],
                 dirs  |-> tree.dirs],
         written |-> written,
         changes |-> Cardinality(written)]

\* the relocation of lines 492-498
Relocate(tree, names) ==
    LET new_pkg_dir == SRC \o <<names.package_name>>
        moved == Exists(tree, OldPackageDir) /\ OldPackageDir # new_pkg_dir
    IN  [tree |-> IF moved THEN MoveDir(tree, OldPackageDir, new_pkg_dir) ELSE tree,
         moved |-> moved]

\* nothing read, nothing written
Untouched(tree, yes) ==
    [tree |-> tree, confirmed |-> FALSE, asked |-> ~yes, written |-> {},
     changes |-> 0, moved |-> FALSE]

\* _do_apply(names, yes), answer being what the user says when asked
do_apply(tree, names, yes, answer) ==
    IF ~Confirmed(yes, answer)
    THEN Untouched(tree, yes)
    ELSE LET pass == TextPass(tree, names)
             move == Relocate(pass.tree, names)
         IN  [tree |-> move.tree, confirmed |-> TRUE, asked |-> ~yes,
              written |-> pass.written, changes |-> pass.changes, moved |-> move.moved]

ScaffoldFound(tree) == RootFound(tree) /\ Exists(tree, SCAFFOLD_DIR)

scaffold_readme(tree) ==
    IF Exists(tree, SCAFFOLD_DIR \o <<ReadmeMdName>>)
    THEN SCAFFOLD_DIR \o <<ReadmeMdName>>
    ELSE SCAFFOLD_DIR \o <<ReadmeRstName>>

\* lines 560-565
RestoreSrc(tree) ==
    LET cleared == IF Exists(tree, SRC) THEN RmTree(tree, SRC) ELSE tree
    IN  IF Exists(tree, SCAFFOLD_DIR \o SRC)
        THEN CopyTree(cleared, SCAFFOLD_DIR \o SRC, SRC)
        ELSE cleared

\* lines 567-573
RestoreTests(tree) ==
    LET cleared == IF Exists(tree, TESTS) THEN RmTree(tree, TESTS) ELSE tree
    IN  IF Exists(tree, SCAFFOLD_DIR \o TESTS)
        THEN CopyTree(cleared, SCAFFOLD_DIR \o TESTS, TESTS)
        ELSE cleared

\* lines 575-578
RestorePyproject(tree) ==
    IF Exists(tree, SCAFFOLD_DIR \o PYPROJECT)
    THEN CopyFile(tree, SCAFFOLD_DIR \o PYPROJECT, PYPROJECT)
    ELSE tree

\* lines 580-584
RestoreReadme(tree) ==
    IF Exists(tree, scaffold_readme(tree))
    THEN CopyFile(tree, scaffold_readme(tree), <<scaffold_readme(tree)[3]>>)
    ELSE tree

\* the "... not found -- skipped." panels
ResetWarnings(tree) ==
    {m \in {"src", "tests", "pyproject.toml", "README"} :
        CASE m = "src"            -> ~Exists(tree, SCAFFOLD_DIR \o SRC)
          [] m = "tests"          -> ~Exists(tree, SCAFFOLD_DIR \o TESTS)
          [] m = "pyproject.toml" -> ~Exists(tree, SCAFFOLD_DIR \o PYPROJECT)
          [] m = "README"         -> ~Exists(tree, scaffold_readme(tree))}

\* the panel of lines 586-589, printed whatever was skipped
ResetReport(warnings) == "all four restored"

\* reset --hard with the scaffold directory in place
HardReset(tree) ==
    [tree |-> RestoreReadme(RestorePyproject(RestoreTests(RestoreSrc(tree)))),
     warnings |-> ResetWarnings(tree),
     report |-> ResetReport(ResetWarnings(tree))]

----------------------------------------------------------------------------
(* init: the wizard of lines 359-375 and the resolution of lines 377-383 *)

\* the user presses Enter at a prompt and gets its default
Enter == <<"<enter>">>

Answer(typed, default) == IF typed = Enter THEN default ELSE typed

\* " ".join(part.capitalize() for part in s.split("_")).replace(" ", ""),
\* s without blanks
CamelCase(s) ==
    LET keep == {i \in 1..Len(s) : s[i] # "_"}
        Nth(k) == CHOOSE i \in keep : Cardinality({j \in keep : j <= i}) = k
    IN  [k \in 1..Cardinality(keep) |->
            IF Nth(k) = 1 \/ s[Nth(k) - 1] = "_"
            THEN UpperChar(s[Nth(k)])
            ELSE LowerChar(s[Nth(k)])]

\* existing.get(key)
ExistingGet(c, f) == SourceGet(c, f, None)

\* the five values the prompts leave in tool_slug ... env_prefix
Wizard(over, c, typed) ==
    LET ts_default   == Or(Or(over.tool_slug, ExistingGet(c, "tool_slug")),
                           PLACEHOLDERS.tool_slug)
        tool_slug    == Answer(typed.tool_slug, ts_default)
        cls_default  == Or(Or(over.class_name, ExistingGet(c, "class_name")),
                           IF IsStr(ts_default) THEN CamelCase(ts_default) ELSE NotStr)
        slug_now     == Or(tool_slug, ts_default)
        pkg_default  == Or(Or(over.package_name, ExistingGet(c, "package_name")),
                           IF IsStr(slug_now) THEN PkgPrefix \o slug_now ELSE NotStr)
        dist_default == Or(Or(over.dist_name, ExistingGet(c, "dist_name")),
                           IF IsStr(slug_now)
                           THEN DistPrefix \o StrReplace(slug_now, "_", "-")
                           ELSE NotStr)
        env_default  == Or(Or(over.env_prefix, ExistingGet(c, "env_prefix")),
                           IF IsStr(slug_now) THEN EnvPrefix \o StrUpper(slug_now) ELSE NotStr)
    IN  [tool_slug    |-> tool_slug,
         class_name   |-> Answer(typed.class_name, cls_default),
         package_name |-> Answer(typed.package_name, pkg_default),
         dist_name    |-> Answer(typed.dist_name, dist_default),
         env_prefix   |-> Answer(typed.env_prefix, env_default)]

\* the wizard raises: existing.get on a value that is no dict, or a str method on a
\* slug that is no str
WizardRaises(over, c, typed) ==
    \/ ~SourceIsDict(c) /\ \E f \in FieldSet : ~Truthy(over[f])
    \/ /\ ~Truthy(Or(over.class_name, ExistingGet(c, "class_name")))
       /\ ~IsStr(Or(Or(over.tool_slug, ExistingGet(c, "tool_slug")), PLACEHOLDERS.tool_slug))
    \/ \E f \in FieldSet : ~IsStr(Wizard(over, c, typed)[f])

\* init up to line 388: the names and how far it got
\*   "exception"  an exception other than typer.Exit leaves the command
\*   "invalid"    is_valid_names said no: typer.Exit(code=1)
\*   "ok"         the names are valid
InitNames(over, file, non_interactive, typed) ==
    LET c == LoadConfig(file)
    IN  IF CfgGetRaises(c) \/ (~non_interactive /\ WizardRaises(over, c, typed))
        THEN [outcome |-> "exception", names |-> NoNames, errs |-> <<>>]
        ELSE LET flags == IF non_interactive THEN over ELSE Wizard(over, c, typed)
             IN  IF ResolveRaises(flags, c)
                 THEN [outcome |-> "exception", names |-> NoNames, errs |-> <<>>]
                 ELSE LET names == Resolve(flags, c)
                          v == is_valid_names(names)
                      IN  IF v.raised
                          THEN [outcome |-> "exception", names |-> NoNames, errs |-> <<>>]
                          ELSE IF Rejects(v)
                          THEN [outcome |-> "invalid", names |-> names, errs |-> v.errs]
                          ELSE [outcome |-> "ok", names |-> names, errs |-> <<>>]

----------------------------------------------------------------------------
(* The commands.  Each is one run of the program: the handler from its first  *)
(* line to the exit, the prompts answered by the user as the action's inputs. *)

EntryPointDecl == <<"[","p","r","o","j","e","c","t",".","e","n","t","r","y","-","p","o","i","n","t","s",".","\"","m","c","p","s","t","a","c","k",".","t","o","o","l","s","\"","]">>

PackageDirPrefix == <<"m","c","p","s","t","a","c","k","_">>

StartsWith(s, prefix) == Len(prefix) <= Len(s) /\ SubSeq(s, 1, Len(prefix)) = prefix

\* val in text
Contains(text, val) == \E i \in 1..Len(text) : LiteralAt(text, i, val)

NoLast ==
    [op |-> "none", outcome |-> "none", exit |-> 0, names |-> NoNames, errs |-> <<>>,
     saved |-> FALSE, wizard |-> FALSE, confirms |-> 0, shown |-> None,
     yes |-> FALSE, answer |-> FALSE, hard |-> FALSE, confirmed |-> FALSE, written |-> {}, changes |-> 0,
     moved |-> FALSE, warnings |-> {}, report |-> "none", missing |-> {},
     pkg_dirs |-> {}]

\* an exception other than typer.Exit and typer.BadParameter ends the run with status 1
Raised(op) == [NoLast EXCEPT !.op = op, !.outcome = "exception", !.exit = 1]

\* CONFIG_PATH as the run sees it
ConfigSeen == IF RootFound(fs) THEN cfg ELSE MissingCfg

\* r and a are the values of the handler's locals, each computed once
init(over, non_interactive, typed, see_preview, apply_now, continue) ==
    \E r \in {InitNames(over, ConfigSeen, non_interactive, typed)} :
    \E a \in {IF r.outcome = "ok" /\ RootFound(fs) /\ apply_now
              THEN do_apply(fs, r.names, FALSE, continue)
              ELSE Untouched(fs, FALSE)} :
    \E shown \in {IF r.outcome = "ok" /\ RootFound(fs) /\ see_preview
                  THEN PreviewShown(fs, r.names)
                  ELSE None} :
        CASE r.outcome = "exception" ->
               /\ last' = Raised("init")
               /\ UNCHANGED <<fs, cfg>>
          [] r.outcome = "invalid" ->
               /\ last' = [NoLast EXCEPT !.op = "init", !.wizard = ~non_interactive,
                                         !.outcome = "Exit", !.exit = 1,
                                         !.names = r.names, !.errs = r.errs]
               /\ UNCHANGED <<fs, cfg>>
          [] r.outcome = "ok" /\ ~RootFound(fs) ->
               \* _save_config: CONFIG_PATH lies below a regular file
               /\ last' = [Raised("init") EXCEPT !.names = r.names,
                                                 !.wizard = ~non_interactive]
               /\ UNCHANGED <<fs, cfg>>
          [] r.outcome = "ok" /\ RootFound(fs) ->
               /\ cfg' = SavedCfg(r.names)
               /\ fs' = a.tree
               /\ last' = [NoLast EXCEPT
                     !.op = "init",
                     !.wizard = ~non_interactive,
                     !.outcome = IF apply_now /\ ~a.confirmed THEN "Exit" ELSE "done",
                     !.names = r.names,
                     !.saved = TRUE,
                     !.confirms = IF apply_now THEN 3 ELSE 2,
                     !.shown = shown,
                     !.answer = continue,
                     !.confirmed = a.confirmed,
                     !.written = a.written,
                     !.changes = a.changes,
                     !.moved = a.moved,
                     !.report = IF a.confirmed THEN "Success" ELSE "none"]

\* a preview that saves the sample it renders
PreviewSavesSample(over, use_config) ==
    \E r \in {EnsureNames(over, ConfigSeen, use_config)} :
        /\ last' = [NoLast EXCEPT !.op = "preview",
                                  !.outcome = IF r.outcome = "ok" THEN "done" ELSE r.outcome,
                                  !.names = r.names]
        /\ fs' = IF r.outcome = "ok" /\ Exists(fs, SamplePath)
                 THEN [fs EXCEPT !.files[SamplePath] = PreviewShown(fs, r.names)]
                 ELSE fs
        /\ UNCHANGED cfg

preview(over, use_config) ==
    \E r \in {EnsureNames(over, ConfigSeen, use_config)} :
        /\ last' = CASE r.outcome = "exception" -> Raised("preview")
                     [] r.outcome = "BadParameter" ->
                          [NoLast EXCEPT !.op = "preview", !.outcome = "BadParameter",
                                         !.exit = 2, !.names = r.names, !.errs = r.errs]
                     [] r.outcome = "ok" ->
                          [NoLast EXCEPT !.op = "preview", !.outcome = "done",
                                         !.names = r.names,
                                         !.shown = PreviewShown(fs, r.names)]
        /\ UNCHANGED <<fs, cfg>>

apply(over, use_config, yes, answer) ==
    \E r \in {EnsureNames(over, ConfigSeen, use_config)} :
    \E a \in {IF r.outcome = "ok"
              THEN do_apply(fs, r.names, yes, answer)
              ELSE Untouched(fs, yes)} :
        /\ last' = CASE r.outcome = "exception" -> [Raised("apply") EXCEPT !.yes = yes]
                     [] r.outcome = "BadParameter" ->
                          [NoLast EXCEPT !.op = "apply", !.outcome = "BadParameter",
                                         !.exit = 2, !.names = r.names, !.errs = r.errs,
                                         !.yes = yes]
                     [] r.outcome = "ok" ->
                          [NoLast EXCEPT !.op = "apply",
                                         !.outcome = IF a.confirmed THEN "done" ELSE "Exit",
                                         !.names = r.names,
                                         !.yes = yes,
                                         !.answer = answer,
                                         !.confirms = IF yes THEN 0 ELSE 1,
                                         !.confirmed = a.confirmed,
                                         !.written = a.written,
                                         !.changes = a.changes,
                                         !.moved = a.moved,
                                         !.report = IF a.confirmed THEN "Success" ELSE "none"]
        /\ fs' = a.tree
        /\ UNCHANGED cfg

validate ==
    /\ last' = [NoLast EXCEPT !.op = "validate", !.outcome = "done",
                  !.missing = {f \in FieldSet :
                                 ~\E p \in iter_files(fs) : Contains(fs.files[p], PLACEHOLDERS[f])}]
    /\ UNCHANGED <<fs, cfg>>

reset(hard) ==
    \E r \in {IF hard /\ ScaffoldFound(fs)
              THEN HardReset(fs)
              ELSE [tree |-> fs, warnings |-> {}, report |-> "none"]} :
        /\ last' = CASE ~hard ->
                          [NoLast EXCEPT !.op = "reset", !.outcome = "Exit", !.report = "tip"]
                     [] hard /\ ~ScaffoldFound(fs) ->
                          [NoLast EXCEPT !.op = "reset", !.outcome = "Exit", !.exit = 1,
                                         !.hard = TRUE, !.report = "Missing scaffold"]
                     [] hard /\ ScaffoldFound(fs) ->
                          [NoLast EXCEPT !.op = "reset", !.outcome = "done", !.hard = TRUE,
                                         !.warnings = r.warnings, !.report = r.report]
        /\ fs' = r.tree
        /\ UNCHANGED cfg

\* doctor reads pyproject.toml whether it is there or not
doctor ==
    /\ last' = IF ~IsFile(fs, PYPROJECT) THEN Raised("doctor")
               ELSE [NoLast EXCEPT !.op = "doctor", !.outcome = "done",
                       !.pkg_dirs = {d \in fs.dirs : /\ Len(d) = 2
                                                    /\ d[1] = SrcName
                                                    /\ StartsWith(d[2], PackageDirPrefix)},
                       !.report = IF Contains(fs.files[PYPROJECT], EntryPointDecl)
                                  THEN "present" ELSE "missing"]
    /\ UNCHANGED <<fs, cfg>>

----------------------------------------------------------------------------
(* The trees and inputs the commands are run on *)

MaxCommands == 2

ToolPyText == ClassToken \o <<"-">> \o EnvToken \o <<"_", "K">>

ReadmeText == <<"r">>

ScaffoldMembers == {SRC, TESTS, PYPROJECT, <<ReadmeMdName>>, <<ReadmeRstName>>}

\* the function with the pairs <<path, text>> as its graph
FilesOf(pairs) ==
    [p \in {x[1] : x \in pairs} |-> (CHOOSE x \in pairs : x[1] = p)[2]]

\* the directories that hold the files of a tree, scripts/ always there
DirsOf(pairs) ==
    UNION {{SubSeq(x[1], 1, k) : k \in 1..(Len(x[1]) - 1)} : x \in pairs}

\* the files of one package tree below base
Members(base, with_pyc) ==
    {<<base \o OldPackageDir \o <<ToolPyName>>, ToolPyText>>}
    \cup (IF with_pyc
          THEN {<<base \o OldPackageDir \o <<PycacheName, ToolPycName>>, ClassToken>>}
          ELSE {})

\* a working tree: src in {"none", "plain", "pyc"}, tests and pyproject a text or None
WorkingFiles(src, tests, pyproject) ==
    (IF src = "none" THEN {} ELSE Members(<<>>, src = "pyc"))
    \cup (IF tests = None THEN {} ELSE {<<TESTS \o <<TestToolPyName>>, tests>>})
    \cup (IF pyproject = None THEN {} ELSE {<<PYPROJECT, pyproject>>})
    \cup {<<<<ReadmeMdName>>, ReadmeText>>}

\* scripts/scaffold with the members of have
ScaffoldFiles(have) ==
    (IF SRC \in have THEN Members(SCAFFOLD_DIR, FALSE) ELSE {})
    \cup (IF TESTS \in have
          THEN {<<SCAFFOLD_DIR \o TESTS \o <<TestToolPyName>>, SlugToken>>} ELSE {})
    \cup (IF PYPROJECT \in have
          THEN {<<SCAFFOLD_DIR \o PYPROJECT, DistToken \o EntryPointDecl>>} ELSE {})
    \cup {<<SCAFFOLD_DIR \o m, <<"R">>  >> : m \in have \cap {<<ReadmeMdName>>, <<ReadmeRstName>>}}

Tree(working, scaffold, with_scaffold) ==
    [files |-> FilesOf(working \cup scaffold),
     dirs  |-> DirsOf(working \cup scaffold) \cup {<<ScriptsName>>}
               \cup (IF with_scaffold THEN {SCAFFOLD_DIR} ELSE {})]

FullScaffold == ScaffoldFiles(ScaffoldMembers \ {<<ReadmeRstName>>})

TemplateFiles == WorkingFiles("pyc", SlugToken, DistToken \o EntryPointDecl)

\* the shapes of the working tree: the template's, a test file nothing is to be
\* rewritten in, one of tests/, src/ and pyproject.toml missing, a bare pyproject.toml
WorkingShapes ==
    {<<"pyc", SlugToken, DistToken \o EntryPointDecl>>,
     <<"pyc", PLACEHOLDERS.dist_name, DistToken \o EntryPointDecl>>,
     <<"pyc", None, DistToken \o EntryPointDecl>>,
     <<"none", SlugToken, DistToken \o EntryPointDecl>>,
     <<"pyc", SlugToken, None>>,
     <<"plain", SlugToken, <<"x">> >>}

WorkingTrees ==
    {Tree(WorkingFiles(w[1], w[2], w[3]), FullScaffold, TRUE) : w \in WorkingShapes}

\* the shapes of the scaffold: one member missing, no README, nothing in it
ScaffoldShapes ==
    {ScaffoldMembers \ {m} : m \in ScaffoldMembers}
    \cup {ScaffoldMembers \ {<<ReadmeMdName>>, <<ReadmeRstName>>}, {}}

\* every shape of the scaffold, and none at all, the working tree the template's
ScaffoldTrees ==
    {Tree(TemplateFiles, ScaffoldFiles(have), TRUE) : have \in ScaffoldShapes}
    \cup {Tree(TemplateFiles, {}, FALSE)}

TemplateTree == Tree(TemplateFiles, FullScaffold, TRUE)

\* the options --tool-slug ... --env-prefix of init, preview and apply
CommandOverrides ==
    {NoOverrides,
     [NoOverrides EXCEPT !.tool_slug = <<"a", "b">>, !.class_name = <<"A", "b">>],
     [NoOverrides EXCEPT !.tool_slug = <<"9">>]}

AllEnter == [f \in FieldSet |-> Enter]

\* what the user types at the five prompts of init
TypedAnswers ==
    {AllEnter,
     [AllEnter EXCEPT !.class_name = <<"a", "b">>]}

\* what the user answers to "Run a preview now?", "Apply changes now?" and, when
\* the apply is run, "This will modify files. Continue?"
ConfirmAnswers ==
    {[see_preview |-> FALSE, apply_now |-> FALSE, continue |-> FALSE],
     [see_preview |-> TRUE,  apply_now |-> FALSE, continue |-> FALSE],
     [see_preview |-> FALSE, apply_now |-> TRUE,  continue |-> FALSE],
     [see_preview |-> TRUE,  apply_now |-> TRUE,  continue |-> TRUE]}

\* .mcpstack-tool.json as init left it and as an editor may have left it
CommandConfigs ==
    {MissingCfg,
     [kind |-> "garbage",   namesKind |-> "absent",  names |-> NoFields],
     [kind |-> "nonobject", namesKind |-> "absent",  names |-> NoFields],
     [kind |-> "object",    namesKind |-> "nondict", names |-> NoFields],
     SavedCfg(derive_names(<<"s", "t">>, <<"S", "t">>, None, None, None)),
     SavedCfg([NoFields EXCEPT !.tool_slug = <<>>]),
     SavedCfg([NoFields EXCEPT !.package_name = NotStr])}

\* no call of the name functions or of the rewriter under way
NoVerdict == [raised |-> FALSE, ok |-> FALSE, errs |-> <<>>]

NoResult == [outcome |-> "none", names |-> NoNames, errs |-> <<>>]

IdleNm == [stage |-> "idle", over |-> NoOverrides, prefer |-> TRUE,
           names |-> NoNames, verdict |-> NoVerdict, res |-> NoResult]

IdleRw == [stage |-> "idle", pieces |-> <<>>, text |-> <<>>, names |-> NoNames,
           prev |-> <<>>, cur |-> <<>>, passes |-> 0]

Init ==
    /\ \/ fs \in WorkingTrees /\ cfg = MissingCfg
       \/ fs \in ScaffoldTrees /\ cfg = MissingCfg
       \/ fs = TemplateTree /\ cfg \in CommandConfigs
    /\ last = NoLast
    /\ runs = 0
    /\ nm = IdleNm
    /\ rw = IdleRw

\* one more run of the program
Run ==
    /\ runs < MaxCommands
    /\ runs' = runs + 1
    /\ UNCHANGED <<nm, rw>>

Next ==
    \/ \E over \in CommandOverrides, non_interactive \in BOOLEAN, typed \in TypedAnswers,
          c \in ConfirmAnswers :
          /\ non_interactive => typed = AllEnter
          /\ Run
          /\ init(over, non_interactive, typed, c.see_preview, c.apply_now, c.continue)
    \/ \E over \in CommandOverrides, use_config \in BOOLEAN :
          Run /\ preview(over, use_config)
    \/ \E over \in CommandOverrides, use_config \in BOOLEAN, yes \in BOOLEAN, answer \in BOOLEAN :
          /\ yes => ~answer
          /\ Run
          /\ apply(over, use_config, yes, answer)
    \/ Run /\ validate
    \/ \E hard \in BOOLEAN : Run /\ reset(hard)
    \/ Run /\ doctor

Spec == Init /\ [][Next]_vars

----------------------------------------------------------------------------
(* SpecNames: derive_names, is_valid_names and _ensure_names_from_sources, called *)
(* on every argument tuple of Overrides and every config file of ConfigFiles     *)

NamesInit ==
    /\ \E o \in Overrides, pc \in BOOLEAN :
          nm = [IdleNm EXCEPT !.stage = "args", !.over = o, !.prefer = pc]
    /\ cfg \in ConfigFiles
    /\ rw = IdleRw
    /\ fs = TemplateTree
    /\ last = NoLast
    /\ runs = 0

\* derive_names(slug, class, package?, dist?, env?)
Derive ==
    /\ nm.stage = "args"
    /\ IsStr(nm.over.tool_slug)
    /\ IsStr(nm.over.class_name)
    /\ nm' = [nm EXCEPT !.stage = "derived",
                        !.names = derive_names(nm.over.tool_slug, nm.over.class_name,
                                               nm.over.package_name, nm.over.dist_name,
                                               nm.over.env_prefix)]
    /\ UNCHANGED <<fs, cfg, last, rw, runs>>

\* is_valid_names on what derive_names returned
Validate ==
    /\ nm.stage = "derived"
    /\ nm' = [nm EXCEPT !.stage = "validated", !.verdict = is_valid_names(nm.names)]
    /\ UNCHANGED <<fs, cfg, last, rw, runs>>

\* is_valid_names on a NameSet that was not derived
ValidateGiven ==
    /\ nm.stage = "args"
    /\ \A f \in FieldSet : IsStr(nm.over[f])
    /\ nm' = [nm EXCEPT !.stage = "validated", !.names = nm.over,
                        !.verdict = is_valid_names(nm.over)]
    /\ UNCHANGED <<fs, cfg, last, rw, runs>>

\* _ensure_names_from_sources(flags..., prefer_config)
Ensure ==
    /\ nm.stage = "args"
    /\ nm' = [nm EXCEPT !.stage = "ensured",
                        !.res = EnsureNames(nm.over, cfg, nm.prefer)]
    /\ UNCHANGED <<fs, cfg, last, rw, runs>>

NamesNext == Derive \/ Validate \/ ValidateGiven \/ Ensure

SpecNames == NamesInit /\ [][NamesNext]_vars

----------------------------------------------------------------------------
(* SpecRewrite: replace_in_text, applied over and over to a text put together *)
(* from the placeholder tokens and single characters of every class             *)

MaxPieces == 3

MaxPasses == 2

Tokens == {PackageToken, DistToken, ClassToken, SlugToken, EnvToken}

\* a lower-case letter, an upper-case letter, a digit, the underscore (all \w),
\* and a hyphen (not \w)
ContextChars == {"x", "K", "7", "_", "-"}

Pieces == Tokens \cup {<<c>> : c \in ContextChars}

RECURSIVE Flatten(_)
Flatten(ps) == IF ps = <<>> THEN <<>> ELSE Head(ps) \o Flatten(Tail(ps))

PieceSeqs == UNION {[1..n -> Pieces] : n \in 0..MaxPieces}

\* NameSets is_valid_names accepts: one that shares nothing with the placeholders,
\* and one whose class name starts with the class placeholder, whose package name is
\* the slug placeholder and whose dist name ends in a hyphen
PlainNames == derive_names(<<"a","b">>, <<"A","b">>, None, None, None)

PlaceholderNames ==
    [PlainNames EXCEPT !.class_name = ClassToken \o <<"K">>,
                       !.package_name = SlugToken,
                       !.dist_name = <<"d","-">>]

RewriteNames == {PlainNames, PlaceholderNames}

RewriteInit ==
    /\ \E ps \in PieceSeqs, n \in RewriteNames :
          rw = [stage |-> "text", pieces |-> ps, text |-> Flatten(ps), names |-> n,
                prev |-> Flatten(ps), cur |-> Flatten(ps), passes |-> 0]
    /\ nm = IdleNm
    /\ cfg = MissingCfg
    /\ fs = TemplateTree
    /\ last = NoLast
    /\ runs = 0

\* text = replace_in_text(text, names), once more
Rewrite ==
    /\ rw.stage \in {"text", "rewritten"}
    /\ rw.passes < MaxPasses
    /\ rw' = [rw EXCEPT !.stage = "rewritten", !.prev = rw.cur,
                        !.cur = replace_in_text(rw.cur, rw.names),
                        !.passes = rw.passes + 1]
    /\ UNCHANGED <<fs, cfg, last, nm, runs>>

RewriteNext == Rewrite

SpecRewrite == RewriteInit /\ [][RewriteNext]_vars

----------------------------------------------------------------------------
(* Properties of the name functions, checked under SpecNames *)

\* the slug as the documentation words it: lowercased, '-' turned into '_'
NormalisedSlug(s) == [i \in 1..Len(s) |-> IF s[i] = "-" THEN "_" ELSE LowerChar(s[i])]

NoOptionalGiven ==
    /\ nm.over.package_name = None
    /\ nm.over.dist_name = None
    /\ nm.over.env_prefix = None

\* C9: derive_names without overrides returns, for every slug and class name, all
\* five fields: tool_slug the slug lowercased with '-' as '_', package_name
\* 'mcpstack_' + that slug, dist_name 'mcpstack-' + that slug with '_' as '-',
\* env_prefix 'MCP_' + that slug uppercased, class_name as given -- also when
\* is_valid_names rejects the result.
DeriveDefaultFormulas ==
    (nm.stage = "derived" /\ NoOptionalGiven) =>
        LET slug == NormalisedSlug(nm.over.tool_slug)
        IN  /\ DOMAIN nm.names = FieldSet
            /\ \A f \in FieldSet : IsStr(nm.names[f])
            /\ nm.names.tool_slug = slug
            /\ nm.names.class_name = nm.over.class_name
            /\ nm.names.package_name = PkgPrefix \o slug
            /\ nm.names.dist_name = DistPrefix \o StrReplace(slug, "_", "-")
            /\ nm.names.env_prefix = EnvPrefix \o StrUpper(slug)

\* derive_names("A-b", "ab") has returned a NameSet, which is_valid_names rejects
DeriveNormalisedInvalidInput ==
    /\ nm.stage = "derived"
    /\ NoOptionalGiven
    /\ nm.over.tool_slug = <<"A","-","b">>
    /\ nm.names.tool_slug = <<"a","_","b">>
    /\ nm.names.dist_name = DistPrefix \o <<"a","-","b">>
    /\ nm.names.env_prefix = EnvPrefix \o <<"A","_","B">>
    /\ ~is_valid_names(nm.names).ok

ViolatingFields(names) == {i \in 1..Len(Fields) : ~FieldMatches(Fields[i], names[Fields[i]])}

PositionOf(f) == CHOOSE i \in 1..Len(Fields) : Fields[i] = f

\* C10: is_valid_names returns one message for each field that violates its grammar,
\* in the order slug, class, package, dist, env, and ok is true exactly when
\* there is no message.
ValidatorReportsEveryViolation ==
    nm.stage = "validated" =>
        LET errs == nm.verdict.errs
        IN  /\ ~nm.verdict.raised
            /\ Len(errs) = Cardinality(ViolatingFields(nm.names))
            /\ {PositionOf(errs[i]) : i \in 1..Len(errs)} = ViolatingFields(nm.names)
            /\ \A i, j \in 1..Len(errs) : i < j => PositionOf(errs[i]) < PositionOf(errs[j])
            /\ nm.verdict.ok <=> (errs = <<>>)

\* slug "A-b" and env_prefix "ev" violate together, and exactly two messages came back
TwoViolationsTwoMessages ==
    /\ nm.stage = "validated"
    /\ nm.names.tool_slug = <<"A","-","b">>
    /\ nm.names.env_prefix = <<"e","v">>
    /\ nm.verdict.errs = <<"tool_slug", "env_prefix">>
    /\ ~nm.verdict.ok

\* the member of the config's "names" object that _ensure_names_from_sources sees
Stored(f) ==
    IF nm.prefer /\ cfg.kind = "object" /\ cfg.namesKind = "dict"
    THEN cfg.names[f]
    ELSE Absent

\* the stored value takes part: for slug and class when the key is there, for the
\* three derived fields when it is there and not empty (nor null)
StoredCounts(f) ==
    IF f \in {"tool_slug", "class_name"} THEN Stored(f) # Absent
    ELSE Stored(f) # Absent /\ Truthy(Stored(f))

\* override over stored value, else the third tier `third`
TwoTiers(f, third) ==
    IF Truthy(nm.over[f]) THEN nm.over[f]
    ELSE IF StoredCounts(f) THEN Stored(f)
    ELSE third

Returned == nm.stage = "ensured" /\ nm.res.outcome \in {"ok", "BadParameter"}

\* C3 as claimed: each of the five fields is the override, else the stored value,
\* else the PLACEHOLDERS entry of that field (the slug up to its normalisation).
PrecedenceEndsInPlaceholder ==
    (nm.stage = "ensured" /\ nm.res.outcome = "ok" /\ nm.prefer) =>
        /\ nm.res.names.tool_slug =
              NormalisedSlug(TwoTiers("tool_slug", PLACEHOLDERS.tool_slug))
        /\ \A f \in FieldSet \ {"tool_slug"} :
              nm.res.names[f] = TwoTiers(f, PLACEHOLDERS[f])

\* C3, amended: the override wins over the stored value for every field; the third
\* tier is the PLACEHOLDERS entry for tool_slug and class_name only, and for
\* package_name, dist_name and env_prefix it is the name derived from the slug that
\* was resolved; without prefer_config the stored value takes no part.
PrecedenceEndsInDerivation ==
    Returned =>
        LET slug == NormalisedSlug(TwoTiers("tool_slug", PLACEHOLDERS.tool_slug))
        IN  /\ nm.res.names.tool_slug = slug
            /\ nm.res.names.class_name = TwoTiers("class_name", PLACEHOLDERS.class_name)
            /\ nm.res.names.package_name = TwoTiers("package_name", PkgPrefix \o slug)
            /\ nm.res.names.dist_name =
                  TwoTiers("dist_name", DistPrefix \o StrReplace(slug, "_", "-"))
            /\ nm.res.names.env_prefix = TwoTiers("env_prefix", EnvPrefix \o StrUpper(slug))

\* all three tiers at work in one call: the slug flag beats the stored slug, the
\* stored package name is kept, and the dist name, given nowhere, follows the flag
ThreeTiersInOneCall ==
    /\ nm.stage = "ensured"
    /\ nm.res.outcome = "ok"
    /\ nm.prefer
    /\ nm.over.tool_slug = <<"a","b">>
    /\ nm.over.package_name = None
    /\ nm.over.dist_name = None
    /\ Stored("tool_slug") = <<"s","t">>
    /\ Stored("package_name") = <<"s","p">>
    /\ Stored("dist_name") = Absent
    /\ nm.res.names.tool_slug = <<"a","b">>
    /\ nm.res.names.package_name = <<"s","p">>
    /\ nm.res.names.dist_name = DistPrefix \o <<"a","b">>
    /\ nm.res.names.dist_name # PLACEHOLDERS.dist_name

----------------------------------------------------------------------------
(* Properties of the rewriter, checked under SpecRewrite *)

\* C1: replace_in_text is idempotent for every text and every valid NameSet -- a
\* second pass with the same names returns what the first pass returned.
RewriteIdempotent ==
    (rw.stage = "rewritten" /\ rw.passes >= 2 /\ is_valid_names(rw.names).ok) =>
        rw.cur = rw.prev

\* the field whose value replaces the placeholder tok
TokenField(tok) ==
    CASE tok = PackageToken -> "package_name"
      [] tok = DistToken    -> "dist_name"
      [] tok = ClassToken   -> "class_name"
      [] tok = SlugToken    -> "tool_slug"
      [] tok = EnvToken     -> "env_prefix"

PrecededByIdentifier(t, i) == IsWordAt(t, i - 1)

FollowedByIdentifier(t, i, tok) == IsWordAt(t, i + Len(tok))

\* the two compound forms: the class placeholder before an upper-case letter or an
\* underscore, the env placeholder before an upper-case letter, a digit or an underscore
CompoundPrefix(t, i, tok) ==
    LET j == i + Len(tok)
    IN  /\ j <= Len(t)
        /\ \/ tok = ClassToken /\ t[j] \in Upper \cup {"_"}
           \/ tok = EnvToken /\ t[j] \in Upper \cup Digits \cup {"_"}

\* the occurrence of tok at i is one the rewriter is to replace: it starts an
\* identifier and either ends it or is a compound prefix
ToBeRewritten(t, i, tok) ==
    /\ LiteralAt(t, i, tok)
    /\ ~PrecededByIdentifier(t, i)
    /\ ~FollowedByIdentifier(t, i, tok) \/ CompoundPrefix(t, i, tok)

RECURSIVE RewrittenWhole(_, _, _)
\* t from i on with exactly the occurrences ToBeRewritten replaced, all at once
RewrittenWhole(t, i, names) ==
    IF i > Len(t) THEN <<>>
    ELSE IF \E tok \in Tokens : ToBeRewritten(t, i, tok)
         THEN LET tok == CHOOSE tk \in Tokens : ToBeRewritten(t, i, tk)
              IN  names[TokenField(tok)] \o RewrittenWhole(t, i + Len(tok), names)
         ELSE <<t[i]>> \o RewrittenWhole(t, i + 1, names)

\* the text is one placeholder with at most one character on either side
OneTokenInContext ==
    /\ Len(rw.pieces) \in 1..3
    /\ Cardinality({k \in 1..Len(rw.pieces) : rw.pieces[k] \in Tokens}) = 1
    /\ Len(rw.pieces) = 3 => rw.pieces[2] \in Tokens

TheToken == rw.pieces[CHOOSE k \in 1..Len(rw.pieces) : rw.pieces[k] \in Tokens]

TokenStart == IF rw.pieces[1] \in Tokens THEN 1 ELSE 2

Before == SubSeq(rw.text, 1, TokenStart - 1)

After == SubSeq(rw.text, TokenStart + Len(TheToken), Len(rw.text))

\* C7: a placeholder that is directly preceded by an identifier character, or directly
\* followed by one, comes out of replace_in_text untouched, except for the class
\* placeholder before [A-Z_] and the env placeholder before [A-Z0-9_] (each starting
\* an identifier), where the placeholder alone is replaced and what follows is kept.
\* First for a single placeholder in context and every NameSet, then for every text
\* of the model under names that share nothing with the placeholders.
EmbeddedPlaceholderUntouched ==
    (rw.stage = "rewritten" /\ rw.passes = 1) =>
        /\ OneTokenInContext =>
              LET embedded == \/ PrecededByIdentifier(rw.text, TokenStart)
                              \/ FollowedByIdentifier(rw.text, TokenStart, TheToken)
                  compound == /\ ~PrecededByIdentifier(rw.text, TokenStart)
                              /\ CompoundPrefix(rw.text, TokenStart, TheToken)
              IN  /\ (embedded /\ ~compound) => rw.cur = rw.text
                  /\ compound => rw.cur = Before \o rw.names[TokenField(TheToken)] \o After
        /\ rw.names = PlainNames => rw.cur = RewrittenWhole(rw.text, 1, rw.names)

\* "YourToolYourToolK" has become "AbYourToolK": the first placeholder, a compound
\* prefix, is replaced; the second, inside an identifier, is kept though a K follows
CompoundReplacedEmbeddedKept ==
    /\ rw.stage = "rewritten"
    /\ rw.passes = 1
    /\ rw.names = PlainNames
    /\ rw.pieces = <<ClassToken, ClassToken, <<"K">>>>
    /\ rw.cur = <<"A","b">> \o ClassToken \o <<"K">>

----------------------------------------------------------------------------
(* Properties of the commands, checked under Spec *)

NameCommands == {"init", "preview", "apply"}

\* the enumerated files of a tree that replace_in_text changes
Pending(tree, names) ==
    {p \in iter_files(tree) : replace_in_text(tree.files[p], names) # tree.files[p]}

\* the run that ends in this step got past the name resolution into _do_apply
\* and was not confirmed there
Declined ==
    /\ last'.op \in {"init", "apply"}
    /\ last'.outcome \in {"done", "Exit"}
    /\ last'.exit = 0
    /\ ~last'.yes
    /\ ~last'.answer

\* C2: the confirmation is a hard gate.  A run of _do_apply that is neither given
\* --yes nor an affirmative answer writes no file and moves no directory, a reset
\* without --hard changes nothing; either ends with exit status 0, the tree as it
\* was and the config as it was (after init: as init had just saved it).
ConfirmationIsAHardGate ==
    [][/\ Declined =>
            /\ fs' = fs
            /\ last'.written = {} /\ ~last'.moved
            /\ IF last'.op = "init" THEN cfg' = SavedCfg(last'.names) ELSE cfg' = cfg
       /\ (last'.op = "reset" /\ ~last'.hard) =>
            /\ fs' = fs
            /\ cfg' = cfg
            /\ last'.exit = 0]_vars

\* an apply was declined on a tree it would have rewritten and moved
DeclinedApplyLeftTreeAlone ==
    /\ last.op = "apply"
    /\ last.outcome = "Exit" /\ last.exit = 0
    /\ ~last.yes /\ ~last.answer
    /\ Pending(fs, last.names) # {}
    /\ Exists(fs, OldPackageDir)

\* C4: a config that is missing, unparseable or malformed is treated like no
\* config: init, preview and apply never end in an exception because of what
\* .mcpstack-tool.json holds.
ConfigReadFailureNeverEscapes ==
    (last.op \in NameCommands /\ RootFound(fs)) => last.outcome # "exception"

\* C5: reset --hard that skipped a member of the scaffold with a warning does not
\* report that src, tests, pyproject.toml and README were all restored.
PartialResetNotReportedAsFull ==
    (last.op = "reset" /\ last.hard /\ last.outcome = "done" /\ last.warnings # {})
        => last.report # "all four restored"

\* C6: apply accounting.  After a confirmed _do_apply the reported count is the
\* number of enumerated files that replace_in_text changes, exactly those files
\* are written and hold the rewritten text, and every other file holds the text it
\* held (the files of the package directory are compared where no move took place).
ApplyCountsExactlyTheRewrittenFiles ==
    [][last'.confirmed =>
          \A read \in {{<<p, replace_in_text(fs.files[p], last'.names)>> : p \in iter_files(fs)}} :
          \A differ \in {{x[1] : x \in {y \in read : y[2] # fs.files[y[1]]}}} :
             /\ last'.written = differ
             /\ last'.changes = Cardinality(differ)
             /\ \A p \in DOMAIN fs.files :
                   (last'.moved /\ IsUnder(OldPackageDir, p))
                   \/ /\ p \in DOMAIN fs'.files
                      /\ fs'.files[p] = IF p \in differ
                                        THEN (CHOOSE x \in read : x[1] = p)[2]
                                        ELSE fs.files[p]]_vars

\* a confirmed apply wrote some of the enumerated files and left an enumerated
\* test file, in which there was nothing to rewrite, unwritten
SomeWrittenSomeLeft ==
    /\ last.op = "apply"
    /\ last.confirmed
    /\ last.changes >= 2
    /\ \E p \in iter_files(fs) : IsUnder(TESTS, p) /\ p \notin last.written

\* C8: no invalid NameSet is accepted.  When the names init, preview or apply
\* resolved fail is_valid_names, the run ends with a non-zero exit status, the
\* config is not written, no file is rewritten and no directory moved; the config
\* changes only when init saves it, and what init saves is a valid NameSet.
InvalidNamesAbortBeforeAnyWrite ==
    [][/\ (last'.op \in NameCommands /\ last'.outcome # "exception") =>
             \A valid \in {is_valid_names(last'.names).ok} :
                /\ ~valid => /\ last'.exit # 0
                             /\ ~last'.saved
                             /\ cfg' = cfg
                             /\ fs' = fs
                /\ last'.saved => valid /\ cfg' = SavedCfg(last'.names)
       /\ cfg' # cfg => last'.op = "init" /\ last'.saved]_vars

\* init was given names of which one fails its grammar and ended with status 1,
\* the config file still missing
InitRejectedInvalidNames ==
    /\ last.op = "init"
    /\ last.outcome = "Exit" /\ last.exit = 1
    /\ Len(last.errs) >= 1
    /\ ~is_valid_names(last.names).ok
    /\ cfg = MissingCfg

\* C11: preview, validate and doctor are read-only.  Whatever the tree and the
\* config are, and however the command ends (done, BadParameter, or an exception
\* such as doctor's on a missing pyproject.toml), a step of one of the three
\* leaves every file's content, the set of directories and the config as they were.
ReadOnly == {"preview", "validate", "doctor"}

ReadOnlyCommandsChangeNothing ==
    [][last'.op \in ReadOnly => fs' = fs /\ cfg' = cfg]_vars

\* a preview rendered a rewritten sample, and the sample file still holds the
\* template text
PreviewShowedRewriteFileKept ==
    /\ last.op = "preview"
    /\ last.outcome = "done"
    /\ last.shown # None
    /\ Exists(fs, SamplePath)
    /\ last.shown # fs.files[SamplePath]

\* C12: init --non-interactive issues no prompt of any kind and modifies no file
\* other than the config.  After an init run without the wizard that saved the
\* config, no question has been asked, no file has been rewritten and no
\* directory has been moved.
NonInteractiveInitAsksNothing ==
    (last.op = "init" /\ ~last.wizard /\ last.saved)
        => (last.confirms = 0 /\ last.written = {} /\ ~last.moved)

\* C13: the text pass has covered the package directory before it is moved.
\* Whenever a run of _do_apply (from apply or chained from init) moves
\* src/mcpstack_your_tool_name, every non-ignored regular file that was in that
\* directory holds, at its new place, replace_in_text of the text it held before
\* the run -- for every tree in which the directory exists.
MovedTo(tree, names) ==
    LET new_pkg_dir == SRC \o <<names.package_name>>
    IN  IF new_pkg_dir \in tree.dirs THEN new_pkg_dir \o <<PackageToken>> ELSE new_pkg_dir

MovedFilesWereRewritten ==
    [][(last'.op \in {"apply", "init"} /\ last'.moved) =>
         \A to \in {MovedTo(fs, last'.names)} :
         \A p \in {q \in DOMAIN fs.files : IsUnder(OldPackageDir, q) /\ ~_skip_path(q)} :
             /\ IsFile(fs', Rebase(p, OldPackageDir, to))
             /\ fs'.files[Rebase(p, OldPackageDir, to)]
                    = replace_in_text(fs.files[p], last'.names)]_vars

\* C14: iter_files treats the two roots independently.  On every tree it yields the
\* non-ignored regular files under src/ when src/ exists, the non-ignored regular
\* files under tests/ when tests/ exists -- an absent root withholding only its own
\* files -- and pyproject.toml whenever that is a file.
FilesUnderRoot(tree, root) ==
    IF Exists(tree, root)
    THEN {p \in DOMAIN tree.files : IsUnder(root, p) /\ ~_skip_path(p)}
    ELSE {}

IterFilesRootsIndependent ==
    iter_files(fs) = FilesUnderRoot(fs, SRC) \cup FilesUnderRoot(fs, TESTS)
                       \cup {p \in {PYPROJECT} : IsFile(fs, p)}

\* C15: the rules of replace_in_text do not interfere, for every valid NameSet.  No
\* rule matches text that a replacement produced, so one call of replace_in_text
\* gives the text in which the placeholder occurrences to be rewritten are replaced
\* all at once, each by its own name and nothing else.
RulesDoNotInterfere ==
    (rw.stage = "rewritten" /\ rw.passes = 1 /\ is_valid_names(rw.names).ok) =>
        rw.cur = RewrittenWhole(rw.text, 1, rw.names)

====
